---------------------------- MODULE Spec2Model ----------------------------
(***************************************************************************)
(* Crawl coordination of the darknet crawler: the Redis-backed frontier    *)
(* (task list + visited set), the Coordinator that seeds it, and the       *)
(* Worker loop (blpop, process_page, fetch, extract_links).                *)
(*                                                                         *)
(* Every Redis command is one atomic step; the Python code between two     *)
(* Redis commands of one worker is local and is folded into the step that  *)
(* follows it.                                                             *)
(***************************************************************************)
EXTENDS Integers, Sequences, FiniteSets, TLC

(***************************************************************************)
(* Bounds of the model.                                                    *)
(***************************************************************************)
\* total number of rpush calls in one behaviour
MaxTasks == 4
\* config.MAX_DEPTH (config/__init__.py:49 sets 5); the cutoff is checked for
\* a smaller configured depth so that the cutoff is reached
MAX_DEPTH == 1

Workers == {"w1", "w2"}

(***************************************************************************)
(* URLs.  A URL is the result of urlparse: scheme, netloc, path and query, *)
(* each a sequence of characters.                                          *)
(***************************************************************************)
LowerChar(c) ==
    CASE c = "A" -> "a"
      [] c = "B" -> "b"
      [] c = "H" -> "h"
      [] c = "T" -> "t"
      [] c = "P" -> "p"
      [] c = "X" -> "x"
      [] c = "O" -> "o"
      [] c = "N" -> "n"
      [] c = "I" -> "i"
      [] c = "Q" -> "q"
      [] OTHER -> c

\* str.lower()
Lower(s) == [i \in DOMAIN s |-> LowerChar(s[i])]

RECURSIVE RStripSlash(_)
\* str.rstrip('/')
RStripSlash(s) ==
    IF s # <<>> /\ s[Len(s)] = "/" THEN RStripSlash(SubSeq(s, 1, Len(s) - 1)) ELSE s

\* str.endswith(suffix)
EndsWith(s, suffix) ==
    /\ Len(s) >= Len(suffix)
    /\ SubSeq(s, Len(s) - Len(suffix) + 1, Len(s)) = suffix

Chars(s) == {s[i] : i \in DOMAIN s}

\* urlparse raises ValueError("Invalid IPv6 URL") on unbalanced brackets
Invalid(u) == ("[" \in Chars(u.netloc)) # ("]" \in Chars(u.netloc))

UrlQ(scheme, netloc, path, query) ==
    [scheme |-> scheme, netloc |-> netloc, path |-> path, query |-> query]

\* a URL without a query
Url(scheme, netloc, path) == UrlQ(scheme, netloc, path, <<>>)

HTTP == <<"h", "t", "t", "p">>
HTTP_UP == <<"H", "T", "T", "P">>
DOT_ONION == <<".", "o", "n", "i", "o", "n">>
DOT_COM == <<".", "c", "o", "m">>

\* URLProcessor.is_onion
is_onion(u) == EndsWith(u.netloc, DOT_ONION)

\* URLProcessor.canonicalize: scheme and netloc lower-cased, the path
\* without its trailing slashes, the query as it is
canonicalize(u) ==
    UrlQ(Lower(u.scheme), Lower(u.netloc), RStripSlash(u.path), u.query)

\* URLProcessor.normalize: url.lower() of the whole string; the scheme is
\* present in every joined URL here
normalize(u) == UrlQ(Lower(u.scheme), Lower(u.netloc), Lower(u.path), Lower(u.query))

\* An href is absolute (a URL) or relative (a path from the root).
AbsHref(u) == [abs |-> TRUE, url |-> u]
RelHref(p) == [abs |-> FALSE, url |-> Url(<<>>, <<>>, p)]

\* URLProcessor.join (urljoin)
join(base, href) ==
    IF href.abs THEN href.url
    ELSE UrlQ(base.scheme, base.netloc, href.url.path, href.url.query)

\* the empty string: urlunparse of empty parts
EmptyUrl == Url(<<>>, <<>>, <<>>)

\* truthiness of the string a URL unparses to
Truthy(u) == u # EmptyUrl


(***************************************************************************)
(* Inputs: the seed lists given to the coordinator and the responses the   *)
(* network gives to a fetch.                                               *)
(***************************************************************************)
HostA == <<"a">> \o DOT_ONION
HostB == <<"b">> \o DOT_ONION
HostD == <<"d">> \o DOT_ONION

SeedA == Url(HTTP_UP, <<"A">> \o DOT_ONION, <<"/">>)
SeedB == Url(HTTP, HostB, <<"/", "x", "/">>)
SeedC == Url(HTTP, <<"c">> \o DOT_COM, <<"/">>)

SeedLists == {<<SeedA, SeedB>>, <<SeedC, EmptyUrl>>}

HrefA == AbsHref(Url(HTTP, HostA, <<"/">>))
HrefD == AbsHref(Url(HTTP, <<"D">> \o DOT_ONION, <<"/", "X">>))
HrefY == RelHref(<<"/", "y", "/">>)
HrefC == AbsHref(Url(HTTP, <<"c">> \o DOT_COM, <<>>))
HrefBad == AbsHref(Url(HTTP, <<"[">>, <<>>))

\* a parsed HTML page: the href/src attributes of its tags, and whether
\* soup.get_text() is non-empty
Page(hrefs, text) == [hrefs |-> hrefs, text |-> text, falsy |-> FALSE]

\* the html of a fetch that returns None
NoHtml == [hrefs |-> {}, text |-> FALSE, falsy |-> TRUE]

\* the pair (html, success) fetch returns
Result(html, success) == [html |-> html, success |-> success]

HtmlPages ==
    { Page({HrefA, HrefD}, TRUE), Page({HrefY, HrefC}, TRUE), Page({HrefBad}, FALSE) }

\* Content-Type classes of a 200 response that is not text/html
BinaryTypes == {"image", "video", "file", "other"}

\* what the network answers to session.get
Responses ==
    {[kind |-> "html", page |-> p, ctype |-> "text/html"] : p \in HtmlPages}
    \cup {[kind |-> "binary", page |-> NoHtml, ctype |-> c] : c \in BinaryTypes}
    \cup {[kind |-> "failed", page |-> NoHtml, ctype |-> "none"]}

(***************************************************************************)
(* State.                                                                  *)
(***************************************************************************)
VARIABLES
    queue,       \* Redis list config.TASK_QUEUE: tasks {"url", "depth"}; id tags the rpush that wrote the entry
    visited,     \* Redis set config.VISITED_SET
    pc,          \* per worker: the next Redis/network call of Worker.run
    task,        \* per worker: the task last returned by blpop
    links,       \* per worker: links _filter_new_links has still to test
    new_links,   \* per worker: list built by _filter_new_links, consumed by _add_to_queue
    result,      \* per worker: the pair fetch returned for the current task
    saved,       \* number of files save_content has written
    exit_log,    \* per worker: the line run logged when its loop ended
    requests,    \* per worker: session.get calls made for the current task
    nextId,      \* number of rpush calls so far, plus one
    popCount,    \* per entry id: how many blpop calls returned the entry
    handed,      \* ids of the entries passed to process_page
    lastSeeded   \* arguments and return value (ok) of initialize_queue when it was the last operation, else NoSeeding

\* the variables of the crawl: coordinator, workers, queue and visited set
crawlVars == <<queue, visited, pc, task, result, links, new_links, saved, exit_log, requests,
               nextId, popCount, handed, lastSeeded>>

VARIABLES
    store_up     \* the Redis server answers: a command sent while it is FALSE raises ConnectionError

VARIABLES
    sem,         \* HttpClient.semaphore: the slots asyncio.Semaphore still has free
    fpc,         \* per caller of HttpClient.fetch: where the call is
    fresp,       \* per caller: the response session.get gave to the call that last returned
    fret,        \* per caller: the pair the call returned
    fsave        \* per caller: the save_content calls the fetch made, and how each ended

fetchVars == <<sem, fpc, fresp, fret, fsave>>

VARIABLES
    now,         \* datetime.now() in whole seconds, as strftime("%Y%m%d%H%M%S") prints it
    disk,        \* the files under the data directories: records of a path and the bytes there
    calls,       \* the save calls so far that ended with their content in a file, each with its arguments
    last_call,   \* the save call that was the last step, else NoCall
    nsaves       \* number of save calls made

saveVars == <<now, disk, calls, last_call, nsaves>>

VARIABLES
    task_queue,  \* ScreenshotManager.task_queue: the screenshot tasks waiting, each tagged by the add_task call that put it
    stop_event,  \* ScreenshotManager.stop_event is set
    spc,         \* where _worker_process is
    init_i,      \* the loop variable i of the pool initialisation
    held,        \* the task task_queue.get returned and the loop has not yet passed on, else 0
    browsers,    \* the list browsers of _worker_process: the instances ready for a task
    busy,        \* the submitted _take_screenshot calls still running: a browser with its task
    browser_creation_errors,  \* the counter of _worker_process
    nextShot,    \* number of add_task calls so far, plus one
    nextBrowser, \* number of browsers _init_browser returned so far, plus one
    accepted,    \* the tasks for which add_task returned True
    captured,    \* the tasks whose _take_screenshot call returned
    failed,      \* the browsers that had a capture fail
    requeued,    \* the tasks the loop has put back at least once
    stopper,     \* where the caller of ScreenshotManager.stop is
    quit_asked,  \* the browsers browser.quit() was called on
    busy_at_stop \* the browsers that were busy with a capture when stop_event was set

shotVars == <<task_queue, stop_event, spc, init_i, held, browsers, busy,
              browser_creation_errors, nextShot, nextBrowser, accepted, captured,
              failed, requeued, stopper, quit_asked, busy_at_stop>>

VARIABLES
    raw,         \* a URL as written in a seed list, a task or an href
    usite,       \* the place of the crawler that has processed raw, "input" before
    uout         \* what that place computed: the dedup key, the scope verdict, or an exception

urlVars == <<raw, usite, uout>>

VARIABLES
    fetch_log    \* the fetches of a recorded session: the entry processed and the visited key of its URL

histVars == <<fetch_log>>

vars == <<crawlVars, store_up, fetchVars, saveVars, shotVars, urlVars, histVars>>

\* what an action of one part leaves alone: the variables of the other parts
outsideCrawl == <<store_up, fetchVars, saveVars, shotVars, urlVars>>
otherThanCrawl == <<outsideCrawl, histVars>>
otherThanFetch == <<crawlVars, store_up, saveVars, shotVars, urlVars, histVars>>
otherThanSave == <<crawlVars, store_up, fetchVars, shotVars, urlVars, histVars>>
otherThanShot == <<crawlVars, store_up, fetchVars, saveVars, urlVars, histVars>>
otherThanUrl == <<crawlVars, store_up, fetchVars, saveVars, shotVars, histVars>>

Ids == 1..(MaxTasks + 1)

\* the payload json.dumps({"url": url, "depth": depth}) of one rpush
Task(url, depth, id) == [url |-> url, depth |-> depth, id |-> id]

\* no task returned yet
NoTask == Task(EmptyUrl, 0, 0)

\* initialize_queue was not the last operation
NoSeeding == [seeds |-> <<>>, clear |-> FALSE, ok |-> FALSE]

\* the crawl before anything ran: an empty store, every worker about to
\* make its first blpop
InitCrawl ==
    /\ queue = <<>>
    /\ visited = {}
    /\ pc = [w \in Workers |-> "blpop"]
    /\ task = [w \in Workers |-> NoTask]
    /\ links = [w \in Workers |-> {}]
    /\ new_links = [w \in Workers |-> <<>>]
    /\ result = [w \in Workers |-> Result(NoHtml, FALSE)]
    /\ saved = 0
    /\ exit_log = [w \in Workers |-> "running"]
    /\ requests = [w \in Workers |-> 0]
    /\ nextId = 1
    /\ popCount = [i \in Ids |-> 0]
    /\ handed = {}
    /\ lastSeeded = NoSeeding
    /\ fetch_log = {}

(***************************************************************************)
(* Content saving (utils/io_utils.py)                                      *)
(***************************************************************************)
\* the directory attributes class config defines
ConfigAttrs == {"TEXT_DIR", "IMAGE_DIR", "SCREENSHOTS_DIR", "VIDEOS_DIR", "FILE_DIR",
                "OUTPUT_DIR"}

\* the attributes the dict literal dir_map of save_content reads
DirMapAttrs == {"SCREENSHOTS_DIR", "IMAGE_DIR", "VIDEOS_DIR", "FILES_DIR"}

\* how one call save_content(content, url, content_type) ends.  "text" opens
\* the file inside try/except: an OSError (io_ok false) is logged and the
\* call returns.  The other four types first build dir_map, outside the
\* try: an attribute config lacks raises AttributeError out of
\* save_content.  Any other type matches no branch.
save_content(content_type, io_ok) ==
    IF content_type = "text"
    THEN IF io_ok THEN "written" ELSE "logged"
    ELSE IF content_type \in {"screenshot", "image", "video", "file"}
         THEN IF ~(DirMapAttrs \subseteq ConfigAttrs) THEN "AttributeError"
              ELSE IF io_ok THEN "written" ELSE "logged"
         ELSE "ignored"


(***************************************************************************)
(* Coordinator                                                             *)
(***************************************************************************)
RECURSIVE PushSeeds(_, _, _)
\* the loop "for url in seed_urls": rpush the canonical form when it is truthy
PushSeeds(q, seeds, id) ==
    IF seeds = <<>> THEN q
    ELSE LET canon == canonicalize(Head(seeds))
         IN  IF Truthy(canon)
             THEN PushSeeds(Append(q, Task(canon, 0, id)), Tail(seeds), id + 1)
             ELSE PushSeeds(q, Tail(seeds), id)

initialize_queue(seed_urls, clear_existing) ==
    LET q0 == IF clear_existing THEN <<>> ELSE queue
        v0 == IF clear_existing THEN {} ELSE visited
        q1 == PushSeeds(q0, seed_urls, nextId)
        n  == Len(q1) - Len(q0)
    IN  /\ store_up
        /\ nextId + n - 1 <= MaxTasks
        /\ queue' = q1
        /\ visited' = v0
        /\ nextId' = nextId + n
        /\ lastSeeded' = [seeds |-> seed_urls, clear |-> clear_existing, ok |-> TRUE]
        /\ UNCHANGED otherThanCrawl
        /\ UNCHANGED <<pc, task, result, links, new_links, saved, exit_log, requests,
                       popCount, handed>>

\* initialize_queue_unreachable returning True after the failed ping
initialize_queue_ping_ignored(seed_urls, clear_existing) ==
    /\ ~store_up
    /\ lastSeeded' = [seeds |-> seed_urls, clear |-> clear_existing, ok |-> TRUE]
    /\ UNCHANGED <<queue, visited, pc, task, result, links, new_links, saved, exit_log,
                   requests, nextId, popCount, handed>>
    /\ UNCHANGED otherThanCrawl

\* initialize_queue with the store unreachable: self.redis.ping() raises
\* redis.ConnectionError, the error is logged and False is returned before
\* any other command
initialize_queue_unreachable(seed_urls, clear_existing) ==
    /\ ~store_up
    /\ lastSeeded' = [seeds |-> seed_urls, clear |-> clear_existing, ok |-> FALSE]
    /\ UNCHANGED <<queue, visited, pc, task, result, links, new_links, saved, exit_log,
                   requests, nextId, popCount, handed>>
    /\ UNCHANGED otherThanCrawl

\* the Redis server becomes reachable
store_recovers ==
    /\ ~store_up
    /\ store_up' = TRUE
    /\ UNCHANGED crawlVars
    /\ UNCHANGED <<fetchVars, saveVars, shotVars, urlVars, histVars>>

\* Coordinator.get_queue_status reads the two sizes
get_queue_status ==
    [queue_size |-> Len(queue), visited_size |-> Cardinality(visited)]


(***************************************************************************)
(* Worker.run                                                              *)
(***************************************************************************)
\* run_timeout with the test of blpop's result lost: the loop breaks
\* although the list holds tasks
run_timeout_nonempty(w) ==
    /\ store_up
    /\ pc[w] = "blpop"
    /\ pc' = [pc EXCEPT ![w] = "stopped"]
    /\ exit_log' = [exit_log EXCEPT ![w] = "queue_empty"]
    /\ lastSeeded' = NoSeeding
    /\ UNCHANGED otherThanCrawl
    /\ UNCHANGED <<queue, visited, task, result, links, new_links, saved, requests,
                   nextId, popCount, handed>>

\* run_timeout with "continue" in place of "break": the worker waits again
run_timeout_continue(w) ==
    /\ store_up
    /\ pc[w] = "blpop"
    /\ queue = <<>>
    /\ lastSeeded' = NoSeeding
    /\ UNCHANGED otherThanCrawl
    /\ UNCHANGED <<queue, visited, pc, task, result, links, new_links, saved, exit_log,
                   requests, nextId, popCount, handed>>

\* blpop returned None after the timeout: the loop breaks
run_timeout(w) ==
    /\ store_up
    /\ pc[w] = "blpop"
    /\ queue = <<>>
    /\ pc' = [pc EXCEPT ![w] = "stopped"]
    /\ exit_log' = [exit_log EXCEPT ![w] = "queue_empty"]
    /\ lastSeeded' = NoSeeding
    /\ UNCHANGED otherThanCrawl
    /\ UNCHANGED <<queue, visited, task, result, links, new_links, saved, requests,
                   nextId, popCount, handed>>

\* run_blpop reading the head with lindex instead of popping it
run_blpop_lindex(w) ==
    /\ store_up
    /\ pc[w] = "blpop"
    /\ queue # <<>>
    /\ LET e == Head(queue)
       IN  /\ queue' = queue
           /\ popCount' = [popCount EXCEPT ![e.id] = @ + 1]
           /\ IF Truthy(e.url) /\ is_onion(e.url)
              THEN /\ pc' = [pc EXCEPT ![w] = "process_page"]
                   /\ task' = [task EXCEPT ![w] = e]
                   /\ handed' = handed \cup {e.id}
              ELSE UNCHANGED <<pc, task, handed>>
    /\ lastSeeded' = NoSeeding
    /\ UNCHANGED otherThanCrawl
    /\ UNCHANGED <<visited, result, links, new_links, saved, exit_log, requests, nextId>>

\* blpop returned the head of the list; json.loads, task.get and the
\* "url and is_onion(url)" test follow without another Redis call
run_blpop(w) ==
    /\ store_up
    /\ pc[w] = "blpop"
    /\ queue # <<>>
    /\ LET e == Head(queue)
       IN  /\ queue' = Tail(queue)
           /\ popCount' = [popCount EXCEPT ![e.id] = @ + 1]
           /\ IF Truthy(e.url) /\ is_onion(e.url)
              THEN /\ pc' = [pc EXCEPT ![w] = "process_page"]
                   /\ task' = [task EXCEPT ![w] = e]
                   /\ handed' = handed \cup {e.id}
              ELSE UNCHANGED <<pc, task, handed>>
    /\ lastSeeded' = NoSeeding
    /\ UNCHANGED otherThanCrawl
    /\ UNCHANGED <<visited, result, links, new_links, saved, exit_log, requests, nextId>>

\* fetch with one retry of a failed request
fetch_retry(w, response) ==
    CASE response.kind = "html" ->
           /\ requests' = [requests EXCEPT ![w] = @ + 1]
           /\ result' = [result EXCEPT ![w] = Result(response.page, TRUE)]
           /\ UNCHANGED saved
      [] response.kind = "binary" ->
           /\ requests' = [requests EXCEPT ![w] = @ + 1]
           /\ \E io_ok \in BOOLEAN :
                 LET out == save_content(response.ctype, io_ok)
                 IN  /\ saved' = IF out = "written" THEN saved + 1 ELSE saved
                     /\ result' = [result EXCEPT ![w] =
                                      Result(NoHtml, out # "AttributeError")]
      [] OTHER ->
           /\ requests' = [requests EXCEPT ![w] = @ + 2]
           /\ result' = [result EXCEPT ![w] = Result(NoHtml, FALSE)]
           /\ UNCHANGED saved

\* HttpClient.fetch for the response the network gives: 200 with text/html
\* returns (text, True); 200 with another content type calls save_content
\* for image, video and file types and returns (None, True), unless
\* save_content raises, which "except Exception" turns into (None, False);
\* another status or an exception of session.get logs a warning and
\* returns (None, False).  One session.get is made.
fetch(w, response) ==
    /\ requests' = [requests EXCEPT ![w] = @ + 1]
    /\ CASE response.kind = "html" ->
              /\ result' = [result EXCEPT ![w] = Result(response.page, TRUE)]
              /\ UNCHANGED saved
         [] response.kind = "binary" ->
              \E io_ok \in BOOLEAN :
                 LET out == save_content(response.ctype, io_ok)
                 IN  /\ saved' = IF out = "written" THEN saved + 1 ELSE saved
                     /\ result' = [result EXCEPT ![w] =
                                      Result(NoHtml, out # "AttributeError")]
         [] OTHER ->
              /\ result' = [result EXCEPT ![w] = Result(NoHtml, FALSE)]
              /\ UNCHANGED saved

\* process_page writing the visited key anew instead of adding to the set
process_page_overwrite(w) ==
    /\ store_up
    /\ pc[w] = "process_page"
    /\ visited' = {canonicalize(task[w].url)}
    /\ \E response \in Responses : fetch(w, response)
    /\ pc' = [pc EXCEPT ![w] = "fetched"]
    /\ lastSeeded' = NoSeeding
    /\ UNCHANGED otherThanCrawl
    /\ UNCHANGED <<queue, task, links, new_links, exit_log, nextId, popCount, handed>>

\* process_page up to the return of fetch: sadd(VISITED_SET,
\* canonicalize(url)) is the one Redis command, the fetch that follows
\* reads and writes no state shared with other workers
process_page_call(w) ==
    /\ store_up
    /\ pc[w] = "process_page"
    /\ visited' = visited \cup {canonicalize(task[w].url)}
    /\ \E response \in Responses : fetch(w, response)
    /\ pc' = [pc EXCEPT ![w] = "fetched"]
    /\ lastSeeded' = NoSeeding
    /\ UNCHANGED outsideCrawl
    /\ UNCHANGED <<queue, task, links, new_links, exit_log, nextId, popCount, handed>>

process_page(w) ==
    /\ process_page_call(w)
    /\ UNCHANGED histVars

\* process_page with its fetch written to the record of the session
process_page_logged(w) ==
    /\ process_page_call(w)
    /\ fetch_log' = fetch_log \cup {[id |-> task[w].id, url |-> canonicalize(task[w].url)]}

\* LinkExtractor._find_links over the hrefs of the page
find_links(hrefs, base_url) ==
    LET full(h) == join(base_url, h)
        norm(h) == normalize(full(h))
    IN  {canonicalize(norm(h)) : h \in {x \in hrefs : is_onion(norm(x))}}

\* urljoin raises ValueError on an href with unbalanced brackets
find_links_raises(hrefs, base_url) ==
    \E h \in hrefs : Invalid(join(base_url, h))

\* process_page returns and the worker is at the head of "while True"
NextTask(w) ==
    /\ pc' = [pc EXCEPT ![w] = "blpop"]
    /\ task' = [task EXCEPT ![w] = NoTask]
    /\ result' = [result EXCEPT ![w] = Result(NoHtml, FALSE)]
    /\ links' = [links EXCEPT ![w] = {}]
    /\ new_links' = [new_links EXCEPT ![w] = <<>>]
    /\ requests' = [requests EXCEPT ![w] = 0]

\* an exception reaches "except Exception" of run, which is outside the
\* loop: the error is logged and the finally block closes the worker
RunException(w) ==
    /\ pc' = [pc EXCEPT ![w] = "stopped"]
    /\ exit_log' = [exit_log EXCEPT ![w] = "run_exception"]
    /\ task' = [task EXCEPT ![w] = NoTask]
    /\ result' = [result EXCEPT ![w] = Result(NoHtml, FALSE)]
    /\ links' = [links EXCEPT ![w] = {}]
    /\ new_links' = [new_links EXCEPT ![w] = <<>>]
    /\ requests' = [requests EXCEPT ![w] = 0]

\* extract_links with the cutoff test "depth > MAX_DEPTH"
extract_links_gt(w, soup) ==
    IF task[w].depth > MAX_DEPTH
    THEN NextTask(w) /\ UNCHANGED exit_log
    ELSE IF find_links_raises(soup.hrefs, task[w].url)
         THEN RunException(w)
         ELSE IF find_links(soup.hrefs, task[w].url) = {}
              THEN NextTask(w) /\ UNCHANGED exit_log
              ELSE /\ links' = [links EXCEPT ![w] = find_links(soup.hrefs, task[w].url)]
                   /\ pc' = [pc EXCEPT ![w] = "filter"]
                   /\ UNCHANGED <<task, result, new_links, requests, exit_log>>

\* LinkExtractor.extract_links up to the first sismember: the depth cutoff,
\* then _find_links
extract_links(w, soup) ==
    IF task[w].depth >= MAX_DEPTH
    THEN NextTask(w) /\ UNCHANGED exit_log
    ELSE IF find_links_raises(soup.hrefs, task[w].url)
         THEN RunException(w)
         ELSE IF find_links(soup.hrefs, task[w].url) = {}
              THEN NextTask(w) /\ UNCHANGED exit_log
              ELSE /\ links' = [links EXCEPT ![w] = find_links(soup.hrefs, task[w].url)]
                   /\ pc' = [pc EXCEPT ![w] = "filter"]
                   /\ UNCHANGED <<task, result, new_links, requests, exit_log>>

\* process_page after fetch returned: "if html:", the text is saved and
\* extract_links is called
process_page_html(w) ==
    /\ pc[w] = "fetched"
    /\ IF result[w].html.falsy
       THEN NextTask(w) /\ UNCHANGED <<saved, exit_log>>
       ELSE /\ saved' = IF result[w].html.text THEN saved + 1 ELSE saved
            /\ extract_links(w, result[w].html)
    /\ lastSeeded' = NoSeeding
    /\ UNCHANGED otherThanCrawl
    /\ UNCHANGED <<queue, visited, nextId, popCount, handed>>

\* one sismember of the list comprehension of _filter_new_links
filter_new_links(w) ==
    /\ store_up
    /\ pc[w] = "filter"
    /\ \E link \in links[w] :
        LET rest == links[w] \ {link}
            found == IF link \in visited THEN new_links[w]
                     ELSE Append(new_links[w], link)
        IN  IF rest = {} /\ found = <<>>
            THEN NextTask(w)
            ELSE /\ links' = [links EXCEPT ![w] = rest]
                 /\ new_links' = [new_links EXCEPT ![w] = found]
                 /\ pc' = [pc EXCEPT ![w] = IF rest # {} THEN "filter" ELSE "rpush"]
                 /\ UNCHANGED <<task, result, requests>>
    /\ lastSeeded' = NoSeeding
    /\ UNCHANGED otherThanCrawl
    /\ UNCHANGED <<queue, visited, saved, exit_log, nextId, popCount, handed>>

\* _add_to_queue pushing at the head of the list (lpush)
add_to_queue_lpush(w) ==
    /\ store_up
    /\ pc[w] = "rpush"
    /\ nextId <= MaxTasks
    /\ queue' = <<Task(Head(new_links[w]), task[w].depth + 1, nextId)>> \o queue
    /\ nextId' = nextId + 1
    /\ pc' = [pc EXCEPT ![w] = "sadd"]
    /\ lastSeeded' = NoSeeding
    /\ UNCHANGED otherThanCrawl
    /\ UNCHANGED <<visited, task, result, links, new_links, saved, exit_log, requests,
                   popCount, handed>>

\* _add_to_queue: rpush of the task for the next new link
add_to_queue_rpush(w) ==
    /\ store_up
    /\ pc[w] = "rpush"
    /\ nextId <= MaxTasks
    /\ queue' = Append(queue, Task(Head(new_links[w]), task[w].depth + 1, nextId))
    /\ nextId' = nextId + 1
    /\ pc' = [pc EXCEPT ![w] = "sadd"]
    /\ lastSeeded' = NoSeeding
    /\ UNCHANGED otherThanCrawl
    /\ UNCHANGED <<visited, task, result, links, new_links, saved, exit_log, requests,
                   popCount, handed>>

\* _add_to_queue: sadd of the link just pushed
add_to_queue_sadd(w) ==
    /\ store_up
    /\ pc[w] = "sadd"
    /\ visited' = visited \cup {Head(new_links[w])}
    /\ IF Tail(new_links[w]) = <<>>
       THEN NextTask(w)
       ELSE /\ new_links' = [new_links EXCEPT ![w] = Tail(@)]
            /\ pc' = [pc EXCEPT ![w] = "rpush"]
            /\ UNCHANGED <<task, result, links, requests>>
    /\ lastSeeded' = NoSeeding
    /\ UNCHANGED otherThanCrawl
    /\ UNCHANGED <<queue, saved, exit_log, nextId, popCount, handed>>

\* a Redis command of the worker raises (connection lost)
store_error(w) ==
    /\ pc[w] \in {"blpop", "process_page", "filter", "rpush", "sadd"}
    /\ RunException(w)
    /\ lastSeeded' = NoSeeding
    /\ UNCHANGED otherThanCrawl
    /\ UNCHANGED <<queue, visited, saved, nextId, popCount, handed>>

Next ==
    \/ \E s \in SeedLists, c \in BOOLEAN : initialize_queue(s, c)
    \/ \E w \in Workers :
        \/ run_timeout(w)
        \/ run_blpop(w)
        \/ process_page(w)
        \/ process_page_html(w)
        \/ filter_new_links(w)
        \/ add_to_queue_rpush(w)
        \/ add_to_queue_sadd(w)
        \/ store_error(w)


(***************************************************************************)
(* HttpClient.fetch and its semaphore (crawler/http_client.py)             *)
(***************************************************************************)
\* the coroutines that may call fetch of one HttpClient at the same time
Callers == {"c1", "c2", "c3"}

\* config.MAX_CONCURRENCY, the initial value of the semaphore (8 in config)
MAX_CONCURRENCY == 2

\* "needle in header" on strings, both taken as sequences of tokens
Infix(needle, header) ==
    \E i \in 0..(Len(header) - Len(needle)) :
        \A j \in 1..Len(needle) : header[i + j] = needle[j]

\* Content-Type headers, lower-cased as fetch does
CT_HTML  == <<"text", "/", "html">>
CT_PNG   == <<"image", "/", "png">>
CT_MP4   == <<"video", "/", "mp4">>
CT_PDF   == <<"application", "/", "pdf">>
CT_MPEG  == <<"audio", "/", "mpeg">>
CT_ZIP   == <<"application", "/", "zip">>
CT_PLAIN == <<"text", "/", "plain">>
ContentTypes == {CT_HTML, CT_PNG, CT_MP4, CT_PDF, CT_MPEG, CT_ZIP, CT_PLAIN, <<>>}

\* the substrings that make fetch store a body as "file"
FileNeedles == {<<"application", "/", "pdf">>, <<"application", "/", "msword">>,
                <<"audio", "/">>, <<"application", "/", "octet-stream">>}

\* the type fetch passes to save_content for a 200 response that is not
\* text/html: the if/elif chain on the header; "none" when no branch saves
SaveTag(content_type) ==
    IF Infix(<<"image">>, content_type) THEN "image"
    ELSE IF Infix(<<"video">>, content_type) THEN "video"
    ELSE IF \E x \in FileNeedles : Infix(x, content_type) THEN "file"
    ELSE "none"

\* what session.get gives: a status with a Content-Type header, or an
\* exception (raised true: timeout, proxy refused, connection reset)
HttpResponse(raised, status, content_type) ==
    [raised |-> raised, status |-> status, content_type |-> content_type]

HttpResponses ==
    {HttpResponse(FALSE, 200, ct) : ct \in ContentTypes}
        \cup {HttpResponse(FALSE, 404, CT_HTML), HttpResponse(TRUE, 0, <<>>)}

NoResponse == HttpResponse(FALSE, 0, <<>>)

\* the pair fetch returns: html is "text" for the page text, "None" otherwise
FetchPair(html, success) == [html |-> html, success |-> success]

NoPair == FetchPair("None", FALSE)

\* one save_content call of a fetch: the type passed and how the call ended
SaveCall(tag, outcome) == [tag |-> tag, outcome |-> outcome]

\* the body of fetch after the sleep, for the response the network gives:
\* the pair returned and the save_content calls made.  An exception of
\* session.get or of save_content lands in "except Exception".
fetch_body(response, io_ok) ==
    IF response.raised THEN [pair |-> FetchPair("None", FALSE), saves |-> <<>>]
    ELSE IF response.status # 200 THEN [pair |-> FetchPair("None", FALSE), saves |-> <<>>]
    ELSE IF Infix(CT_HTML, response.content_type)
         THEN [pair |-> FetchPair("text", TRUE), saves |-> <<>>]
    ELSE LET tag == SaveTag(response.content_type)
             out == save_content(tag, io_ok)
         IN  IF tag = "none" THEN [pair |-> FetchPair("None", TRUE), saves |-> <<>>]
             ELSE IF out = "AttributeError"
                  THEN [pair |-> FetchPair("None", FALSE), saves |-> <<SaveCall(tag, out)>>]
                  ELSE [pair |-> FetchPair("None", TRUE), saves |-> <<SaveCall(tag, out)>>]

InitFetch ==
    /\ sem = MAX_CONCURRENCY
    /\ fpc = [c \in Callers |-> "idle"]
    /\ fresp = [c \in Callers |-> NoResponse]
    /\ fret = [c \in Callers |-> NoPair]
    /\ fsave = [c \in Callers |-> <<>>]

\* a coroutine calls fetch(url): it reaches "async with self.semaphore"
fetch_call(c) ==
    /\ fpc[c] = "idle"
    /\ fpc' = [fpc EXCEPT ![c] = "acquire"]
    /\ fresp' = [fresp EXCEPT ![c] = NoResponse]
    /\ fret' = [fret EXCEPT ![c] = NoPair]
    /\ fsave' = [fsave EXCEPT ![c] = <<>>]
    /\ UNCHANGED sem
    /\ UNCHANGED otherThanFetch

\* Semaphore.acquire returns when the value is positive, taking one slot
fetch_acquire(c) ==
    /\ fpc[c] = "acquire"
    /\ sem > 0
    /\ sem' = sem - 1
    /\ fpc' = [fpc EXCEPT ![c] = "sleep"]
    /\ UNCHANGED <<fresp, fret, fsave>>
    /\ UNCHANGED otherThanFetch

\* asyncio.sleep(1 / config.RATE_LIMIT) ends; the slot is held meanwhile
fetch_sleep(c) ==
    /\ fpc[c] = "sleep"
    /\ fpc' = [fpc EXCEPT ![c] = "get"]
    /\ UNCHANGED <<sem, fresp, fret, fsave>>
    /\ UNCHANGED otherThanFetch

\* fetch_get leaving the slot taken when the request failed
fetch_get_leak(c, response, io_ok) ==
    LET b == fetch_body(response, io_ok)
    IN  /\ fpc[c] = "get"
        /\ fresp' = [fresp EXCEPT ![c] = response]
        /\ fret' = [fret EXCEPT ![c] = b.pair]
        /\ fsave' = [fsave EXCEPT ![c] = b.saves]
        /\ sem' = IF b.pair.success THEN sem + 1 ELSE sem
        /\ fpc' = [fpc EXCEPT ![c] = "idle"]
        /\ UNCHANGED otherThanFetch

\* session.get answers and the try block runs to one of its returns; every
\* return leaves "async with self.semaphore", which releases the slot
fetch_get(c, response, io_ok) ==
    LET b == fetch_body(response, io_ok)
    IN  /\ fpc[c] = "get"
        /\ fresp' = [fresp EXCEPT ![c] = response]
        /\ fret' = [fret EXCEPT ![c] = b.pair]
        /\ fsave' = [fsave EXCEPT ![c] = b.saves]
        /\ sem' = sem + 1
        /\ fpc' = [fpc EXCEPT ![c] = "idle"]
        /\ UNCHANGED otherThanFetch

NextFetch ==
    \E c \in Callers :
        \/ fetch_call(c)
        \/ fetch_acquire(c)
        \/ fetch_sleep(c)
        \/ \E response \in HttpResponses, io_ok \in BOOLEAN : fetch_get(c, response, io_ok)


(***************************************************************************)
(* Files written by the savers (crawler/saver.py, utils/io_utils.py,       *)
(* crawler/screenshot_manager.py)                                          *)
(***************************************************************************)
\* the last second of the clock
MaxClock == 1

\* save calls in one behaviour
MaxSaves == 2

\* URLs of saved content: two resources of one host
ImgUrl == Url(HTTP, HostA, <<"/", "i", ".png">>)
DocUrl == Url(HTTP, HostA, <<"/", "x">>)
SaveUrls == {ImgUrl, DocUrl}

\* bodies: two different byte strings, and the empty one
Bodies == {"b1", "b2"}
EmptyBody == ""

\* hashlib.sha256(content).hexdigest()[:16], shortened to three digits; the
\* two bodies share the first two
Sha256Prefix(content) ==
    CASE content = "b1" -> <<"3", "a", "7">>
      [] content = "b2" -> <<"3", "a", "c">>
      [] OTHER -> <<"e", "3", "b">>

\* hash(url) % 10000 of the running interpreter, printed in the file name
UrlHash(url) ==
    CASE url = ImgUrl -> "17"
      [] url = DocUrl -> "4242"
      [] OTHER -> "0"

\* os.path.splitext(path)[1]: the extension of the last path segment
SplitExt(path) ==
    IF path # <<>> /\ path[Len(path)] \in {".png", ".jpg", ".pdf"}
    THEN path[Len(path)] ELSE ""

\* config.SUPPORTED_IMAGE_FORMATS
SUPPORTED_IMAGE_FORMATS == {".jpg", ".jpeg", ".png", ".bmp"}

\* URLProcessor.get_domain(url)
get_domain(url) == IF Invalid(url) THEN <<>> ELSE url.netloc

\* a file path: the directory with its sub-directories, the timestamp the
\* name starts with, the rest of the name, and the extension
Path(dir, ts, name, ext) == [dir |-> dir, ts |-> ts, name |-> name, ext |-> ext]

File(path, bytes) == [path |-> path, bytes |-> bytes]

\* ContentSaver.get_save_path: base_dir/domain/hash[:2]/{timestamp}_{hash}{ext}
get_save_path(url, content_type, content) ==
    LET base_dir == CASE content_type = "text" -> "TEXT_DIR"
                      [] content_type = "image" -> "IMAGE_DIR"
                      [] content_type = "screenshot" -> "SCREENSHOTS_DIR"
                      [] OTHER -> "FILE_DIR"
        url_ext == SplitExt(url.path)
        ext == CASE content_type = "text" -> ".txt"
                 [] content_type = "image" ->
                      IF url_ext \in SUPPORTED_IMAGE_FORMATS THEN url_ext ELSE ".jpg"
                 [] content_type = "screenshot" -> ".png"
                 [] OTHER -> IF url_ext = "" THEN ".bin" ELSE url_ext
        content_hash == Sha256Prefix(content)
    IN  Path(<<base_dir>> \o get_domain(url) \o <<"/">> \o SubSeq(content_hash, 1, 2),
             now, content_hash, ext)

\* the path save_content and _take_screenshot build:
\* dir/{timestamp}_{netloc}_{hash(url) % 10000}{ext}
base_path(dir, url, ext) ==
    Path(<<dir>>, now, url.netloc \o <<"_", UrlHash(url)>>, ext)

\* one save call with its arguments
Call(saver, url, content_type, content) ==
    [saver |-> saver, url |-> url, content_type |-> content_type, content |-> content]

NoCall == Call("none", EmptyUrl, "", EmptyBody)

Paths == {f.path : f \in disk}

\* open(path, "wb") and write: the file at path now holds content
Write(path, content) == {f \in disk : f.path # path} \cup {File(path, content)}

InitSave ==
    /\ now = 0
    /\ disk = {}
    /\ calls = {}
    /\ last_call = NoCall
    /\ nsaves = 0

\* a second passes
Tick ==
    /\ now < MaxClock
    /\ now' = now + 1
    /\ last_call' = NoCall
    /\ UNCHANGED <<disk, calls, nsaves>>
    /\ UNCHANGED otherThanSave

\* the bookkeeping of a save call; stored: the call ended with its content
\* in a file
Called(call, stored) ==
    /\ nsaves < MaxSaves
    /\ nsaves' = nsaves + 1
    /\ calls' = IF stored THEN calls \cup {call} ELSE calls
    /\ last_call' = call
    /\ UNCHANGED now
    /\ UNCHANGED otherThanSave

\* ContentSaver.save: nothing for empty content; else the path is built
\* (directories made), an existing path skips the write, otherwise the
\* bytes are written; an exception anywhere (io_ok false) is logged
ContentSaver_save(url, content_type, content, io_ok) ==
    /\ Called(Call("ContentSaver", url, content_type, content),
              content # EmptyBody /\ io_ok)
    /\ IF content = EmptyBody \/ ~io_ok
       THEN UNCHANGED disk
       ELSE LET save_path == get_save_path(url, content_type, content)
            IN  IF save_path \in Paths
                THEN UNCHANGED disk
                ELSE disk' = Write(save_path, content)

\* utils/io_utils.save_content as a step on the disk: the text branch
\* writes TEXT_DIR/{base}.txt with mode "w"; the binary branch raises
\* before opening anything unless config has every dir_map attribute
save_content_write(url, content_type, content, io_ok) ==
    /\ Called(Call("save_content", url, content_type, content),
              save_content(content_type, io_ok) = "written")
    /\ IF save_content(content_type, io_ok) = "written"
       THEN LET dir == CASE content_type = "text" -> "TEXT_DIR"
                         [] content_type = "image" -> "IMAGE_DIR"
                         [] content_type = "video" -> "VIDEOS_DIR"
                         [] content_type = "screenshot" -> "SCREENSHOTS_DIR"
                         [] OTHER -> "FILES_DIR"
                ext == CASE content_type = "text" -> ".txt"
                         [] content_type = "image" -> ".jpg"
                         [] content_type = "video" -> ".mp4"
                         [] content_type = "screenshot" -> ".png"
                         [] OTHER -> ".bin"
            IN  disk' = Write(base_path(dir, url, ext), content)
       ELSE UNCHANGED disk

\* _take_screenshot from get_screenshot_as_png on: the PNG is written to
\* SCREENSHOTS_DIR/{base}.png with mode "wb"; an exception is logged
take_screenshot_write(url, content, io_ok) ==
    /\ Called(Call("screenshot", url, "screenshot", content), io_ok)
    /\ IF io_ok
       THEN disk' = Write(base_path("SCREENSHOTS_DIR", url, ".png"), content)
       ELSE UNCHANGED disk

NextSave ==
    \/ Tick
    \/ \E url \in SaveUrls, content_type \in {"image", "file"},
          content \in Bodies \cup {EmptyBody}, io_ok \in BOOLEAN :
            ContentSaver_save(url, content_type, content, io_ok)
    \/ \E url \in SaveUrls, content_type \in {"text", "image"},
          content \in Bodies, io_ok \in BOOLEAN :
            save_content_write(url, content_type, content, io_ok)
    \/ \E url \in SaveUrls, content \in Bodies, io_ok \in BOOLEAN :
            take_screenshot_write(url, content, io_ok)


(***************************************************************************)
(* ScreenshotManager (crawler/screenshot_manager.py)                       *)
(***************************************************************************)
\* config.SCREENSHOT_WORKERS
SCREENSHOT_WORKERS == 2

\* max_browser_errors of _worker_process
max_browser_errors == 3

\* task_queue_size, the maxsize of the multiprocessing.Queue (100 by default)
task_queue_size == 2

\* add_task calls in one behaviour
MaxShots == 3

\* browsers _init_browser returns in one behaviour
MaxBrowsers == 3

Range(f) == {f[i] : i \in DOMAIN f}

InitShot ==
    /\ task_queue = <<>>
    /\ stop_event = FALSE
    /\ spc = "none"
    /\ init_i = 0
    /\ held = 0
    /\ browsers = <<>>
    /\ busy = {}
    /\ browser_creation_errors = 0
    /\ nextShot = 1
    /\ nextBrowser = 1
    /\ accepted = {}
    /\ captured = {}
    /\ failed = {}
    /\ requeued = {}
    /\ stopper = "idle"
    /\ quit_asked = {}
    /\ busy_at_stop = {}

\* ScreenshotManager.add_task for an http URL: put(url, block=False); a full
\* queue raises queue.Full and the call returns False
add_task ==
    /\ nextShot <= MaxShots
    /\ nextShot' = nextShot + 1
    /\ IF Len(task_queue) < task_queue_size
       THEN /\ task_queue' = Append(task_queue, nextShot)
            /\ accepted' = accepted \cup {nextShot}
       ELSE UNCHANGED <<task_queue, accepted>>
    /\ UNCHANGED <<stop_event, spc, init_i, held, browsers, busy, browser_creation_errors,
                   nextBrowser, captured, failed, requeued>>
    /\ UNCHANGED <<stopper, quit_asked, busy_at_stop>>
    /\ UNCHANGED otherThanShot

\* the process is running: started, and neither returned nor terminated
Alive == spc \notin {"none", "exited", "terminated"}

\* ScreenshotManager.start: the process is created and started
start ==
    /\ spc = "none"
    /\ spc' = "init"
    /\ UNCHANGED <<task_queue, stop_event, init_i, held, browsers, busy,
                   browser_creation_errors, nextShot, nextBrowser, accepted, captured,
                   failed, requeued, stopper, quit_asked, busy_at_stop>>
    /\ UNCHANGED otherThanShot

\* ScreenshotManager.stop: nothing when there is no process or it is not
\* alive; else the event is set and the caller enters join(timeout=5)
stop ==
    /\ stopper = "idle"
    /\ IF Alive
       THEN /\ stop_event' = TRUE
            /\ stopper' = "join"
            /\ busy_at_stop' = {x.browser : x \in busy}
       ELSE UNCHANGED <<stop_event, stopper, busy_at_stop>>
    /\ UNCHANGED <<task_queue, spc, init_i, held, browsers, busy, browser_creation_errors,
                   nextShot, nextBrowser, accepted, captured, failed, requeued, quit_asked>>
    /\ UNCHANGED otherThanShot

\* join returns: the process has exited within the five seconds, or the
\* five seconds are over with the process still alive, which is then
\* terminated
stop_join ==
    /\ stopper = "join"
    /\ stopper' = "done"
    /\ spc' = IF Alive THEN "terminated" ELSE spc
    /\ UNCHANGED <<task_queue, stop_event, init_i, held, browsers, busy,
                   browser_creation_errors, nextShot, nextBrowser, accepted, captured,
                   failed, requeued, quit_asked, busy_at_stop>>
    /\ UNCHANGED otherThanShot

\* one round of "for i in range(config.SCREENSHOT_WORKERS)": _init_browser
\* returns a browser (created true), or raises and the error is counted,
\* leaving the loop at max_browser_errors
init_pool(created) ==
    /\ spc = "init"
    /\ IF init_i < SCREENSHOT_WORKERS
       THEN IF created
            THEN /\ nextBrowser <= MaxBrowsers
                 /\ browsers' = Append(browsers, nextBrowser)
                 /\ nextBrowser' = nextBrowser + 1
                 /\ init_i' = init_i + 1
                 /\ UNCHANGED <<spc, browser_creation_errors>>
            ELSE /\ browser_creation_errors' = browser_creation_errors + 1
                 /\ init_i' = init_i + 1
                 /\ spc' = IF browser_creation_errors + 1 >= max_browser_errors
                           THEN "loop" ELSE "init"
                 /\ UNCHANGED <<browsers, nextBrowser>>
       ELSE /\ spc' = "loop"
            /\ UNCHANGED <<init_i, browsers, nextBrowser, browser_creation_errors>>
    /\ UNCHANGED <<task_queue, stop_event, held, busy, nextShot, accepted, captured,
                   failed, requeued>>
    /\ UNCHANGED <<stopper, quit_asked, busy_at_stop>>
    /\ UNCHANGED otherThanShot

\* "while not stop_event.is_set()" and task_queue.get(timeout=1): a task is
\* taken, or queue.Empty sends the loop round again; a set event leaves
\* the loop
loop_get ==
    /\ spc = "loop"
    /\ IF stop_event
       THEN /\ spc' = "shutdown"
            /\ UNCHANGED <<task_queue, held>>
       ELSE IF task_queue = <<>>
            THEN UNCHANGED <<spc, task_queue, held>>
            ELSE /\ held' = Head(task_queue)
                 /\ task_queue' = Tail(task_queue)
                 /\ spc' = "task"
    /\ UNCHANGED <<stop_event, init_i, browsers, busy, browser_creation_errors, nextShot,
                   nextBrowser, accepted, captured, failed, requeued>>
    /\ UNCHANGED <<stopper, quit_asked, busy_at_stop>>
    /\ UNCHANGED otherThanShot

\* submit leaving the browser taken in the list
submit_keep ==
    /\ spc = "task"
    /\ browsers # <<>>
    /\ busy' = busy \cup {[browser |-> Head(browsers), task |-> held]}
    /\ held' = 0
    /\ spc' = "loop"
    /\ UNCHANGED <<task_queue, stop_event, init_i, browsers, browser_creation_errors,
                   nextShot, nextBrowser, accepted, captured, failed, requeued>>
    /\ UNCHANGED <<stopper, quit_asked, busy_at_stop>>
    /\ UNCHANGED otherThanShot

\* "if browsers:" browsers.pop(0) and executor.submit(_take_screenshot, ...)
submit ==
    /\ spc = "task"
    /\ browsers # <<>>
    /\ busy' = busy \cup {[browser |-> Head(browsers), task |-> held]}
    /\ browsers' = Tail(browsers)
    /\ held' = 0
    /\ spc' = "loop"
    /\ UNCHANGED <<task_queue, stop_event, init_i, browser_creation_errors, nextShot,
                   nextBrowser, accepted, captured, failed, requeued>>
    /\ UNCHANGED <<stopper, quit_asked, busy_at_stop>>
    /\ UNCHANGED otherThanShot

\* "else:" no browser is ready: the warning is logged and the loop is about
\* to put the task back
no_browser ==
    /\ spc = "task"
    /\ browsers = <<>>
    /\ spc' = "put"
    /\ UNCHANGED <<task_queue, stop_event, init_i, held, browsers, busy,
                   browser_creation_errors, nextShot, nextBrowser, accepted, captured,
                   failed, requeued>>
    /\ UNCHANGED <<stopper, quit_asked, busy_at_stop>>
    /\ UNCHANGED otherThanShot

\* requeue without the put: the task taken is forgotten
requeue_drop ==
    /\ spc = "put"
    /\ requeued' = requeued \cup {held}
    /\ held' = 0
    /\ spc' = "create"
    /\ UNCHANGED <<task_queue, stop_event, init_i, browsers, busy, browser_creation_errors,
                   nextShot, nextBrowser, accepted, captured, failed>>
    /\ UNCHANGED <<stopper, quit_asked, busy_at_stop>>
    /\ UNCHANGED otherThanShot

\* task_queue.put(url), a blocking put: it returns when the queue has a
\* free place; then time.sleep(1)
requeue ==
    /\ spc = "put"
    /\ Len(task_queue) < task_queue_size
    /\ task_queue' = Append(task_queue, held)
    /\ requeued' = requeued \cup {held}
    /\ held' = 0
    /\ spc' = "create"
    /\ UNCHANGED <<stop_event, init_i, browsers, busy, browser_creation_errors,
                   nextShot, nextBrowser, accepted, captured, failed>>
    /\ UNCHANGED <<stopper, quit_asked, busy_at_stop>>
    /\ UNCHANGED otherThanShot

\* "if browser_creation_errors < max_browser_errors:" one more
\* _init_browser, appended on success, counted on failure
recreate(created) ==
    /\ spc = "create"
    /\ spc' = "loop"
    /\ IF browser_creation_errors < max_browser_errors
       THEN IF created
            THEN /\ nextBrowser <= MaxBrowsers
                 /\ browsers' = Append(browsers, nextBrowser)
                 /\ nextBrowser' = nextBrowser + 1
                 /\ UNCHANGED browser_creation_errors
            ELSE /\ browser_creation_errors' = browser_creation_errors + 1
                 /\ UNCHANGED <<browsers, nextBrowser>>
       ELSE UNCHANGED <<browsers, nextBrowser, browser_creation_errors>>
    /\ UNCHANGED <<task_queue, stop_event, init_i, held, busy, nextShot, accepted,
                   captured, failed, requeued>>
    /\ UNCHANGED <<stopper, quit_asked, busy_at_stop>>
    /\ UNCHANGED otherThanShot

\* a submitted _take_screenshot returns, True (ok) or, every exception
\* caught, False; it never raises, so f.exception() is None and the done
\* callback appends the browser
take_screenshot(b, ok) ==
    /\ Alive
    /\ b \in busy
    /\ busy' = busy \ {b}
    /\ browsers' = Append(browsers, b.browser)
    /\ captured' = captured \cup {b.task}
    /\ failed' = IF ok THEN failed ELSE failed \cup {b.browser}
    /\ UNCHANGED <<task_queue, stop_event, spc, init_i, held, browser_creation_errors,
                   nextShot, nextBrowser, accepted, requeued>>
    /\ UNCHANGED <<stopper, quit_asked, busy_at_stop>>
    /\ UNCHANGED otherThanShot

\* shutdown leaving the with block while captures still run
shutdown_nowait ==
    /\ spc = "shutdown"
    /\ spc' = "exited"
    /\ quit_asked' = quit_asked \cup Range(browsers)
    /\ browsers' = <<>>
    /\ UNCHANGED <<task_queue, stop_event, init_i, held, busy, browser_creation_errors,
                   nextShot, nextBrowser, accepted, captured, failed, requeued>>
    /\ UNCHANGED <<stopper, busy_at_stop>>
    /\ UNCHANGED otherThanShot

\* the with block of the executor ends when the running captures have
\* returned; "finally" calls quit on the browsers of the list and the
\* process returns
shutdown ==
    /\ spc = "shutdown"
    /\ busy = {}
    /\ spc' = "exited"
    /\ quit_asked' = quit_asked \cup Range(browsers)
    /\ browsers' = <<>>
    /\ UNCHANGED <<task_queue, stop_event, init_i, held, busy, browser_creation_errors,
                   nextShot, nextBrowser, accepted, captured, failed, requeued>>
    /\ UNCHANGED <<stopper, busy_at_stop>>
    /\ UNCHANGED otherThanShot

NextShot ==
    \/ add_task
    \/ start
    \/ stop
    \/ stop_join
    \/ \E created \in BOOLEAN : init_pool(created)
    \/ loop_get
    \/ submit
    \/ no_browser
    \/ requeue
    \/ \E created \in BOOLEAN : recreate(created)
    \/ \E b \in busy, ok \in BOOLEAN : take_screenshot(b, ok)
    \/ shutdown


(***************************************************************************)
(* The URL functions at the places that use them (utils/url_processor.py,  *)
(* crawler/coordinator.py, crawler/worker.py, crawler/link_extractor.py)   *)
(***************************************************************************)
\* URLs as they are written in seed lists and pages
RawNetlocs ==
    { HostA,
      <<"A">> \o DOT_ONION,
      <<"a", ".", "O", "N", "I", "O", "N">>,
      HostA \o <<":", "8", "0">>,
      <<"u", "@">> \o HostA,
      <<"c">> \o DOT_COM,
      <<"[">> }

RawPaths == {<<>>, <<"/">>, <<"/", "x">>, <<"/", "x", "/">>, <<"/", "X">>}

RawQueries == {<<>>, <<"Q", "=", "1">>}

RawUrls ==
    {UrlQ(scheme, netloc, path, query) :
        scheme \in {HTTP, HTTP_UP}, netloc \in RawNetlocs,
        path \in RawPaths, query \in RawQueries}

\* the page whose hrefs link extraction resolves
BaseUrl == Url(HTTP, HostB, <<"/">>)

\* the outcome at a place: an exception raised, or ok (the URL passed the
\* test of the place) with the dedup key built
Out(raised, ok, key) == [raised |-> raised, ok |-> ok, key |-> key]

NoOut == Out(FALSE, FALSE, EmptyUrl)

\* Coordinator.initialize_queue: canon = URLProcessor.canonicalize(url);
\* urlparse raises ValueError on a malformed netloc
seed_key(u) ==
    IF Invalid(u) THEN Out(TRUE, FALSE, EmptyUrl)
    ELSE Out(FALSE, Truthy(canonicalize(u)), canonicalize(u))

\* Worker.process_page: canon_url = URLProcessor.canonicalize(url)
visited_key(u) ==
    IF Invalid(u) THEN Out(TRUE, FALSE, EmptyUrl)
    ELSE Out(FALSE, TRUE, canonicalize(u))

\* LinkExtractor._find_links for one href: join, normalize, is_onion,
\* canonicalize; a link that is not onion gets no key
link_key(base_url, href) ==
    IF Invalid(join(base_url, href)) THEN Out(TRUE, FALSE, EmptyUrl)
    ELSE LET norm_url == normalize(join(base_url, href))
         IN  IF is_onion(norm_url)
             THEN Out(FALSE, TRUE, canonicalize(norm_url))
             ELSE Out(FALSE, FALSE, EmptyUrl)

\* URLProcessor.is_onion(url) as Worker.run calls it on the URL of a task
scope_check(u) ==
    IF Invalid(u) THEN Out(TRUE, FALSE, EmptyUrl)
    ELSE Out(FALSE, is_onion(u), EmptyUrl)

\* what the place site computes for the URL u
Compute(site, u) ==
    CASE site = "seed" -> seed_key(u)
      [] site = "visited" -> visited_key(u)
      [] site = "link" -> link_key(BaseUrl, AbsHref(u))
      [] OTHER -> scope_check(u)

InitUrl ==
    /\ raw \in RawUrls
    /\ usite = "input"
    /\ uout = NoOut

\* no URL under study
IdleUrl ==
    /\ raw = EmptyUrl
    /\ usite = "input"
    /\ uout = NoOut

\* raw is a seed given to initialize_queue
seed_applied ==
    /\ usite = "input"
    /\ usite' = "seed"
    /\ uout' = seed_key(raw)
    /\ UNCHANGED raw
    /\ UNCHANGED otherThanUrl

\* raw is the URL of the task process_page marks visited
visited_applied ==
    /\ usite = "input"
    /\ usite' = "visited"
    /\ uout' = visited_key(raw)
    /\ UNCHANGED raw
    /\ UNCHANGED otherThanUrl

\* raw is an href of the page _find_links walks
link_applied ==
    /\ usite = "input"
    /\ usite' = "link"
    /\ uout' = link_key(BaseUrl, AbsHref(raw))
    /\ UNCHANGED raw
    /\ UNCHANGED otherThanUrl

\* raw is the URL of the task Worker.run tests with is_onion
scope_applied ==
    /\ usite = "input"
    /\ usite' = "scope"
    /\ uout' = scope_check(raw)
    /\ UNCHANGED raw
    /\ UNCHANGED otherThanUrl

NextUrl ==
    \/ seed_applied
    \/ visited_applied
    \/ link_applied
    \/ scope_applied


(***************************************************************************)
(* Specifications                                                          *)
(***************************************************************************)
Init ==
    /\ InitCrawl
    /\ store_up = TRUE
    /\ InitFetch
    /\ InitSave
    /\ InitShot
    /\ IdleUrl

\* the crawl: coordinator and workers on one store
Spec == Init /\ [][Next]_vars

\* one worker process and the coordinator started while the Redis server
\* is unreachable; the server may become reachable later
StartupWorkers == {"w1"}

InitStartup ==
    /\ InitCrawl
    /\ store_up = FALSE
    /\ InitFetch
    /\ InitSave
    /\ InitShot
    /\ IdleUrl

NextStartup ==
    \/ store_recovers
    \/ \E s \in SeedLists, c \in BOOLEAN : initialize_queue_unreachable(s, c)
    \/ \E s \in SeedLists, c \in BOOLEAN : initialize_queue(s, c)
    \/ \E w \in StartupWorkers :
        \/ run_timeout(w)
        \/ run_blpop(w)
        \/ process_page(w)
        \/ process_page_html(w)
        \/ filter_new_links(w)
        \/ add_to_queue_rpush(w)
        \/ add_to_queue_sadd(w)
        \/ store_error(w)

SpecStartup == InitStartup /\ [][NextStartup]_vars

\* one crawl session, its fetches recorded: seeding never clears the store
NextSession ==
    \/ \E s \in SeedLists : initialize_queue(s, FALSE)
    \/ \E w \in Workers :
        \/ run_timeout(w)
        \/ run_blpop(w)
        \/ process_page_logged(w)
        \/ process_page_html(w)
        \/ filter_new_links(w)
        \/ add_to_queue_rpush(w)
        \/ add_to_queue_sadd(w)
        \/ store_error(w)

SpecSession == Init /\ [][NextSession]_vars

\* one worker on a frontier that is seeded before the worker takes its
\* first task
SingleWorker == {"w1"}

seed_frontier(seed_urls, clear_existing) ==
    /\ \A i \in Ids : popCount[i] = 0
    /\ initialize_queue(seed_urls, clear_existing)

NextBfs ==
    \/ \E s \in SeedLists, c \in BOOLEAN : seed_frontier(s, c)
    \/ \E w \in SingleWorker :
        \/ run_timeout(w)
        \/ run_blpop(w)
        \/ process_page(w)
        \/ process_page_html(w)
        \/ filter_new_links(w)
        \/ add_to_queue_rpush(w)
        \/ add_to_queue_sadd(w)
        \/ store_error(w)

SpecBfs == Init /\ [][NextBfs]_vars

\* the steps of worker w that its process takes when it is scheduled and
\* its blpop and fetch return: every step of run but a raised Redis error
WorkerStep(w) ==
    \/ run_timeout(w)
    \/ run_blpop(w)
    \/ process_page(w)
    \/ process_page_html(w)
    \/ filter_new_links(w)
    \/ add_to_queue_rpush(w)
    \/ add_to_queue_sadd(w)

NextTerm ==
    \/ \E s \in SeedLists, c \in BOOLEAN : seed_frontier(s, c)
    \/ \E w \in Workers :
        \/ run_timeout(w)
        \/ run_blpop(w)
        \/ process_page(w)
        \/ process_page_html(w)
        \/ filter_new_links(w)
        \/ add_to_queue_rpush(w)
        \/ add_to_queue_sadd(w)
        \/ store_error(w)

\* the crawl of a frontier seeded before the workers start, each worker
\* process scheduled again and again
SpecTerm == Init /\ [][NextTerm]_vars /\ \A w \in Workers : WF_vars(WorkerStep(w))

\* coroutines calling fetch of one HttpClient
SpecFetch == Init /\ [][NextFetch]_vars

\* the savers writing files while the clock runs
SpecSave == Init /\ [][NextSave]_vars

\* the screenshot process, add_task callers and the capture threads
SpecShot == Init /\ [][NextShot]_vars

\* the URL functions applied to URLs as written
InitSpecUrl ==
    /\ InitCrawl
    /\ store_up = TRUE
    /\ InitFetch
    /\ InitSave
    /\ InitShot
    /\ InitUrl

SpecUrl == InitSpecUrl /\ [][NextUrl]_vars


(***************************************************************************)
(* Properties                                                              *)
(***************************************************************************)
QueueIds == {queue[i].id : i \in DOMAIN queue}

\* C1: when several workers discover the same unvisited link, exactly one
\* of them enqueues it: no URL has two link tasks (depth >= 1) in the queue.
C1_LinkEnqueuedOnce ==
    \A i, j \in DOMAIN queue :
        (i # j /\ queue[i].depth >= 1 /\ queue[j].depth >= 1)
            => queue[i].url # queue[j].url

\* C2: dequeue is atomic: an entry written by one rpush is returned by at
\* most one blpop, an entry still in the list was returned by none, and no
\* two workers hold the same entry.
C2_DequeueAtomic ==
    /\ \A id \in Ids : popCount[id] <= 1
    /\ \A id \in QueueIds : popCount[id] = 0
    /\ \A i, j \in DOMAIN queue : i # j => queue[i].id # queue[j].id
    /\ \A w1, w2 \in Workers :
        (w1 # w2 /\ task[w1] # NoTask) => task[w1].id # task[w2].id

\* two workers hold a popped task each, at the same time
C2_Witness ==
    \E w1, w2 \in Workers :
        /\ w1 # w2
        /\ task[w1] # NoTask /\ task[w2] # NoTask
        /\ popCount[task[w1].id] = 1 /\ popCount[task[w2].id] = 1

\* the canonical forms of the seeds that have one
CanonSeeds(seeds) ==
    {canonicalize(seeds[i]) : i \in DOMAIN seeds} \ {EmptyUrl}

\* C3: right after initialize_queue(seeds, clear_existing=True) with k
\* distinct seed URLs the queue holds k tasks of depth 0 and the visited set
\* holds exactly the k URLs; get_queue_status reports k and k.
C3_SeedClearScenario ==
    (lastSeeded # NoSeeding /\ lastSeeded.clear)
        => LET k == Cardinality(CanonSeeds(lastSeeded.seeds))
           IN  /\ Len(queue) = k
               /\ \A i \in DOMAIN queue : queue[i].depth = 0
               /\ {queue[i].url : i \in DOMAIN queue} = CanonSeeds(lastSeeded.seeds)
               /\ visited = CanonSeeds(lastSeeded.seeds)
               /\ get_queue_status = [queue_size |-> k, visited_size |-> k]

\* C4: initialize_queue with clear_existing=False and the seed list of the
\* seeding just before it appends nothing: queue and visited set stay as
\* the first seeding left them.
C4_SecondSeedingAddsNothing ==
    [][(/\ lastSeeded # NoSeeding
        /\ lastSeeded' # NoSeeding
        /\ lastSeeded'.seeds = lastSeeded.seeds
        /\ ~lastSeeded'.clear)
          => (queue' = queue /\ visited' = visited)]_vars

\* C5: the visited set only grows: every step other than a seeding that
\* clears the store leaves every visited URL in the set.
C5_VisitedOnlyGrows ==
    [][(lastSeeded' = NoSeeding \/ ~lastSeeded'.clear)
          => visited \subseteq visited']_vars

\* a worker has enqueued links and the visited set holds seed and links
C5_Witness ==
    /\ Cardinality(visited) >= 3
    /\ \E w \in Workers : pc[w] = "blpop" /\ exit_log[w] = "running"
    /\ handed # {}

\* the steps a worker takes for a task at or past the depth cutoff
CutoffStep(w) ==
    (task[w].depth >= MAX_DEPTH /\ pc[w] = "fetched")
        => /\ pc'[w] \in {"fetched", "blpop"}
           /\ (pc'[w] = "blpop" => (queue' = queue /\ visited' = visited))

\* an append to the list by a worker is the task of a link found on a page
\* of depth d < MAX_DEPTH, with depth d + 1
AppendStep ==
    (lastSeeded' = NoSeeding /\ Len(queue') > Len(queue))
        => \E w \in Workers :
            /\ pc[w] = "rpush"
            /\ task[w].depth < MAX_DEPTH
            /\ queue' = Append(queue, Task(Head(new_links[w]), task[w].depth + 1, nextId))

\* a URL added to the visited set by a worker is the URL of its task or a
\* link it pushed for a task of depth < MAX_DEPTH
VisitStep ==
    (lastSeeded' = NoSeeding /\ visited' # visited)
        => \E w \in Workers :
            \/ pc[w] = "process_page"
                 /\ visited' = visited \cup {canonicalize(task[w].url)}
            \/ pc[w] = "sadd" /\ task[w].depth < MAX_DEPTH
                 /\ visited' = visited \cup {Head(new_links[w])}

\* C6: depth cutoff: a task of depth >= MAX_DEPTH appends no task and adds
\* no link to the visited set whatever links its page has; a task of depth
\* d < MAX_DEPTH enqueues its links with depth d + 1 only.
C6_DepthCutoff ==
    [][/\ \A w \in Workers : CutoffStep(w)
       /\ AppendStep
       /\ VisitStep
       /\ \A w \in Workers :
            pc'[w] \in {"filter", "rpush", "sadd"} => task'[w].depth < MAX_DEPTH]_vars

\* a task at the cutoff depth has been fetched and its page has onion links
C6_Witness ==
    \E w \in Workers :
        /\ pc[w] = "fetched"
        /\ task[w].depth = MAX_DEPTH
        /\ ~result[w].html.falsy
        /\ ~find_links_raises(result[w].html.hrefs, task[w].url)
        /\ find_links(result[w].html.hrefs, task[w].url) # {}

\* C7: a worker whose blpop times out on the empty list stops and takes no
\* further task; a worker whose blpop returns a task holds that task and
\* does not stop.
C7_TimeoutStops ==
    [][\A w \in Workers :
        /\ (pc[w] = "blpop" /\ pc'[w] = "stopped" /\ exit_log'[w] = "queue_empty")
              => (queue = <<>> /\ queue' = <<>> /\ popCount' = popCount
                  /\ handed' = handed /\ task'[w] = NoTask)
        /\ (pc[w] = "blpop" /\ queue = <<>> /\ pc'[w] # "blpop")
              => (pc'[w] = "stopped" /\ lastSeeded' = NoSeeding)
        /\ (pc[w] = "blpop" /\ pc'[w] # "blpop" /\ exit_log'[w] = "running")
              => (queue # <<>> /\ pc'[w] = "process_page"
                  /\ task'[w] = Head(queue) /\ queue' = Tail(queue))
        /\ pc[w] = "stopped"
              => (pc'[w] = "stopped" /\ task'[w] = NoTask
                  /\ exit_log'[w] = exit_log[w])]_vars

\* one worker has stopped on the empty list after tasks were processed,
\* while another worker has taken a task
C7_Witness ==
    \E w1, w2 \in Workers :
        /\ pc[w1] = "stopped" /\ exit_log[w1] = "queue_empty"
        /\ pc[w2] = "process_page"
        /\ Cardinality(handed) >= 2

\* C8: an exception while a worker processes a task does not stop the
\* worker: a worker that holds a task never moves to stopped.
C8_TaskFailureIsolated ==
    [][\A w \in Workers :
        pc[w] \in {"process_page", "fetched", "filter", "rpush", "sadd"}
            => pc'[w] # "stopped"]_vars

\* C9: no task is lost: every entry a blpop returned has been handed to
\* process_page.
C9_NoTaskLost ==
    \A id \in Ids : popCount[id] >= 1 => id \in handed

\* C10: a failed fetch is one request and returns None; the worker then
\* saves nothing, enqueues nothing, marks nothing, keeps running and goes
\* to the next blpop.
C10_FailedFetch ==
    [][\A w \in Workers :
        /\ requests[w] <= 1 /\ requests'[w] <= 1
        /\ (pc[w] = "process_page" /\ pc'[w] = "fetched" /\ ~result'[w].success)
              => (result'[w].html = NoHtml /\ requests'[w] = 1
                  /\ saved' = saved /\ queue' = queue)
        /\ (pc[w] = "fetched" /\ ~result[w].success /\ pc'[w] # "fetched")
              => (pc'[w] = "blpop" /\ exit_log'[w] = "running"
                  /\ saved' = saved /\ queue' = queue /\ visited' = visited
                  /\ nextId' = nextId)]_vars

\* a fetch has failed while tasks wait in the queue
C10_Witness ==
    \E w \in Workers :
        /\ pc[w] = "fetched"
        /\ ~result[w].success
        /\ requests[w] = 1
        /\ queue # <<>>

\* the callers inside "async with self.semaphore"
Holders == {c \in Callers : fpc[c] \in {"sleep", "get"}}

\* C11: the fetches holding a concurrency slot never exceed MAX_CONCURRENCY,
\* every way out of a fetch gives its slot back (the free slots and the
\* holders always add up to MAX_CONCURRENCY), and with no fetch in progress
\* all MAX_CONCURRENCY slots are free.
C11_SlotsBounded ==
    /\ sem \in 0..MAX_CONCURRENCY
    /\ Cardinality(Holders) <= MAX_CONCURRENCY
    /\ sem + Cardinality(Holders) = MAX_CONCURRENCY
    /\ (Holders = {} => sem = MAX_CONCURRENCY)

\* every slot is taken and a further caller waits in acquire
C11_Witness ==
    /\ sem = 0
    /\ Cardinality(Holders) = MAX_CONCURRENCY
    /\ \E c \in Callers : fpc[c] = "acquire"

\* the call of c has returned for a 200 response that is not text/html
ReturnedBinary(c) ==
    /\ fpc[c] = "idle"
    /\ ~fresp[c].raised
    /\ fresp[c].status = 200
    /\ ~Infix(CT_HTML, fresp[c].content_type)

\* C12: for every successful non-HTML response fetch returns no document
\* and has called the saver exactly once with the body, tagged image, video
\* or file.
C12_BinaryHandedToSaver ==
    \A c \in Callers :
        ReturnedBinary(c)
            => /\ fret[c].html = "None"
               /\ Len(fsave[c]) = 1
               /\ fsave[c][1].tag \in {"image", "video", "file"}

\* C14: a failure inside the content saver never propagates: every
\* save_content call of a fetch returns normally (the file written, or the
\* failure logged), and the fetch returns what it returns after a
\* successful save, (None, True).
C14_SaverFailureContained ==
    \A c \in Callers :
        (fpc[c] = "idle" /\ fsave[c] # <<>>)
            => /\ \A i \in DOMAIN fsave[c] : fsave[c][i].outcome \in {"written", "logged"}
               /\ fret[c] = FetchPair("None", TRUE)

\* C13: saving identical bytes for the same URL and content type twice, with
\* any time between the two calls, leaves exactly one file: a
\* ContentSaver.save call whose arguments an earlier call has already
\* stored writes nothing.
C13_SecondSaveWritesNothing ==
    [][(/\ last_call' # NoCall
        /\ last_call'.saver = "ContentSaver"
        /\ last_call' \in calls)
            => disk' = disk]_vars

\* C20: a written artifact is never changed by a later save: every file on
\* disk stays at its path with its bytes, whichever saver runs next.
C20_WrittenNeverChanged ==
    [][\A f \in disk : f \in disk']_vars

\* C15: a browser whose capture failed is not returned to the pool and is
\* never assigned a later task.
C15_FailedBrowserRetired ==
    \A b \in failed :
        /\ b \notin Range(browsers)
        /\ \A x \in busy : x.browser # b

\* the tasks waiting in the queue, taken by the loop, or with a browser
InFlight == Range(task_queue) \cup {held} \cup {x.task : x \in busy}

\* C16: while the supervisor runs, no accepted task is discarded: each is in
\* the queue (put back there when no browser was ready), in the hands of
\* the loop that just took it, with a browser, or captured.
C16_NoTaskDiscarded ==
    spc \notin {"exited", "terminated"} => accepted \subseteq (InFlight \cup captured)

\* a task taken while no browser was ready is back in the queue
C16_Witness ==
    /\ spc \notin {"exited", "terminated"}
    /\ \E t \in requeued : t \in Range(task_queue)

\* u and v differ at most in the case of the scheme, the case of the host
\* and trailing slashes of the path
SamePage(u, v) ==
    /\ Lower(u.scheme) = Lower(v.scheme)
    /\ Lower(u.netloc) = Lower(v.netloc)
    /\ RStripSlash(u.path) = RStripSlash(v.path)
    /\ u.query = v.query

\* C17: at every place that builds a dedup key (seeding, marking visited,
\* link extraction) URLs that differ only in scheme case, host case or
\* trailing slash get the same key; the root path is kept as "/" and the
\* query is kept verbatim.
C17_OneKeyPerPage ==
    (usite \in {"seed", "visited", "link"} /\ ~uout.raised /\ uout.ok)
        => /\ \A v \in RawUrls : SamePage(raw, v) => Compute(usite, v) = uout
           /\ (raw.path = <<"/">> => uout.key.path = <<"/">>)
           /\ uout.key.query = raw.query

RECURSIVE AfterAt(_)
\* the part of a netloc after its user-info
AfterAt(s) ==
    IF "@" \in Chars(s) THEN AfterAt(Tail(s)) ELSE s

RECURSIVE BeforeColon(_)
\* the part of a host:port before the port
BeforeColon(s) ==
    IF s = <<>> \/ Head(s) = ":" THEN <<>> ELSE <<Head(s)>> \o BeforeColon(Tail(s))

\* the host of a URL: lower-cased, without user-info and port
NormalizedHost(u) == Lower(BeforeColon(AfterAt(u.netloc)))

\* C18: the scope test is true exactly when the normalized host ends with
\* the onion label, false for every other input, malformed ones included,
\* and never raises.
C18_ScopeByHost ==
    usite = "scope"
        => /\ ~uout.raised
           /\ uout.ok = (~Invalid(raw) /\ EndsWith(NormalizedHost(raw), DOT_ONION))

\* C19: while the store is unreachable, seeding reports failure and leaves
\* the queue and the visited set as they were, and a worker that makes a
\* step ends stopped, with no URL fetched.
C19_StoreUnreachable ==
    [][~store_up
        => /\ queue' = queue
           /\ visited' = visited
           /\ (lastSeeded' # NoSeeding => ~lastSeeded'.ok)
           /\ \A w \in Workers :
                /\ requests'[w] = 0
                /\ pc'[w] \in {"blpop", "stopped"}
                /\ (exit_log'[w] # exit_log[w] => pc'[w] = "stopped")]_vars

\* the store is unreachable, the seeding just reported failure and a worker
\* has stopped
C19_Witness ==
    /\ ~store_up
    /\ lastSeeded # NoSeeding
    /\ ~lastSeeded.ok
    /\ \E w \in Workers : pc[w] = "stopped" /\ exit_log[w] = "run_exception"

\* every worker has left its loop
AllStopped == \A w \in Workers : pc[w] = "stopped"

\* C21: when every worker has stopped and no seeding came after the last
\* worker stopped, the queue is empty: no enqueued task is left unprocessed.
C21_QueueEmptyAtEnd ==
    (AllStopped /\ lastSeeded = NoSeeding) => queue = <<>>

\* C22: the rate-limit sleep is over before the fetch takes its concurrency
\* slot: a caller still sleeping holds no slot, so the slots taken are
\* exactly those of the callers at the request.
C22_SleepBeforeSlot ==
    MAX_CONCURRENCY - sem = Cardinality({c \in Callers : fpc[c] = "get"})

\* C23: each browser is in the ready list once or assigned to exactly one
\* running capture, never both and never to two captures.
C23_ExclusiveUse ==
    /\ \A i, j \in DOMAIN browsers : browsers[i] = browsers[j] => i = j
    /\ \A x \in busy : x.browser \notin Range(browsers)
    /\ \A x, y \in busy : x.browser = y.browser => x = y

\* a capture has completed and its browser is back in the list while
\* another capture is running
C23_Witness ==
    /\ busy # {}
    /\ browsers # <<>>
    /\ captured # {}

\* C24: the live browsers, ready plus busy, are never more than
\* SCREENSHOT_WORKERS.
C24_PoolBounded ==
    Alive => Len(browsers) + Cardinality(busy) <= SCREENSHOT_WORKERS

\* C25: a successful browser creation resets the count of creation failures.
C25_SuccessResetsCount ==
    [][nextBrowser' > nextBrowser => browser_creation_errors' = 0]_vars

\* the browsers created so far
Created == 1..(nextBrowser - 1)

\* C26: the process is terminated only by a stop that has set the event and
\* waited in join with the process still alive; when the process has exited,
\* every browser it created has been asked to quit; while the process was
\* never started, stop sets no event and leaves its caller where it was.
C26_Shutdown ==
    [][/\ (spc' = "terminated" /\ spc # "terminated")
            => (stop_event /\ stopper = "join" /\ Alive)
       /\ spc' = "exited" => Created' \subseteq quit_asked'
       /\ spc = "none" => (~stop_event' /\ stopper' = "idle" /\ spc' \in {"none", "init"})
      ]_vars

\* the process has exited after a stop that arrived while captures were
\* running, and the browsers of those captures were asked to quit
C26_Witness ==
    /\ spc = "exited"
    /\ stopper = "done"
    /\ busy_at_stop # {}
    /\ busy_at_stop \subseteq quit_asked

\* C30: when the loop is about to put a task back, the queue has a free
\* place, so the put returns.
C30_PutCompletes ==
    spc = "put" => Len(task_queue) < task_queue_size

\* C27: in a session no URL is fetched twice: two fetches recorded with the
\* same visited key are of the same queue entry.
C27_FetchedOnce ==
    \A a, b \in fetch_log : a.url = b.url => a.id = b.id

PushesExhausted == \E w \in Workers : pc[w] = "rpush" /\ nextId > MaxTasks

=============================================================================
